---- MODULE Spec2Model ----
(***************************************************************************)
(* A model of STLSlicer (src/stlslicer.py) and of NumpyArrayEncoder        *)
(* (src/util.py).                                                          *)
(*                                                                         *)
(* Three state machines share this module:                                 *)
(*   Spec        one STLSlicer session: load_mesh, slice_mesh and          *)
(*               export_layers called in any order;                        *)
(*   ExportSpec  several export_layers runs for the same source stem       *)
(*               racing through the directory-creation loop of             *)
(*               lines 142-176 (FairExportSpec adds scheduling fairness);  *)
(*   EncoderSpec NumpyArrayEncoder.default applied to numpy values.        *)
(*                                                                         *)
(* Lengths are integers in one fixed unit (a fixed-point reading of the    *)
(* floats of the program); Python's None is the empty tuple and a present  *)
(* value x is <<x>>.                                                       *)
(***************************************************************************)
EXTENDS Integers, Sequences, FiniteSets, TLC

VARIABLES
    \* ---- one STLSlicer session (src/stlslicer.py:17-23)
    layers,           \* self.layers: insertion-ordered dict, a sequence of <<height, section>>
    distance,         \* self.distance: only annotated in __init__, so it starts unset
    full_filename,    \* self.full_filename
    filename,         \* self.filename
    mesh,             \* self.mesh: None or <<mesh record>>
    mesh_watertight,  \* self.mesh_watertight
    result,           \* what the last call did: its return value or exception, and
                      \* the document it wrote
    layers_src,       \* history: the file of the mesh self.layers was sliced from, and
                      \* the watertight flag the session held for that mesh
    \* ---- concurrent export_layers runs (src/stlslicer.py:142-176)
    pc,               \* position of each run in export_layers
    exp_type,         \* the exp_type argument of each run
    dir_name,         \* the dir_name each run last computed, None before the first
    created,          \* history: did this run's makedirs call itself create dir_name
    fs,               \* directories of this stem on disk, as <<exp_type, age of timestamp>>
    parent_writable,  \* whether the parent directory accepts new entries
    \* ---- NumpyArrayEncoder.default (src/util.py:6-19)
    enc_obj,          \* the object handed to default
    enc_out           \* what default returned or raised for it, None before the call

sessionVars == <<layers, distance, full_filename, filename, mesh, mesh_watertight,
                 result, layers_src>>
exportVars == <<pc, exp_type, dir_name, created, fs, parent_writable>>
encoderVars == <<enc_obj, enc_out>>
vars == <<layers, distance, full_filename, filename, mesh, mesh_watertight,
          result, layers_src,
          pc, exp_type, dir_name, created, fs, parent_writable,
          enc_obj, enc_out>>

None == <<>>
Some(x) == <<x>>
Abs(n) == IF n < 0 THEN -n ELSE n

(***************************************************************************)
(* Bounds of the model.                                                    *)
(***************************************************************************)
\* Mesh Z extents (z_max - z_min) range over 0..MaxExtent.
MaxExtent == 3
\* The pitch argument ranges over -MaxPitch..MaxPitch (and None).
MaxPitch == 2
\* Concurrent export_layers runs.
NumRuns == 2
\* Timestamps are kept as ages in seconds; ages of MaxAge and more are one value.
MaxAge == 2
\* numpy numbers handed to the encoder range over -MaxNum..MaxNum.
MaxNum == 12

(***************************************************************************)
(* Paths and meshes.                                                       *)
(***************************************************************************)
\* A path is its stem and its extension; "" is the path with both empty.
Path(stem, ext) == [stem |-> stem, ext |-> ext]
EmptyPath == Path("", "")
Files == {Path("a", "stl"), Path("b", "stl"), Path("missing", "stl")}

\* os.path.splitext(f)[0]
splitext0(f) == f.stem

\* trimesh.load(f) raises for a file that is missing or unreadable.
LoadRaises(f) == f.stem = "missing"

\* The lower Z bound of the mesh in a file: a.stl starts below the XY plane,
\* the others above it.
ZMinOf(f) == IF f.stem = "a" THEN -1 ELSE 2

\* The meshes trimesh.load can return for f; src remembers the file.
MeshesOf(f) ==
    { [src |-> f, z_min |-> ZMinOf(f), z_max |-> ZMinOf(f) + ext,
       is_watertight |-> w, units |-> "mm"] :
        ext \in 0..MaxExtent, w \in BOOLEAN }

Distances == {None} \cup { Some(d) : d \in -MaxPitch..MaxPitch }
SectionKinds == {"Path2D", "None"}
ExpTypes == {"json", "dxf", "svg", "obj"}

(***************************************************************************)
(* repair_mesh_watertight (src/stlslicer.py:187-195).                      *)
(***************************************************************************)
\* mesh.fix_normals and mesh.fill_holes are read, never called: the value
\* tested is the bound method object, and a bound method is truthy.
BoundMethodTruthy == TRUE

repair_mesh_watertight(m) ==
    IF ~m.is_watertight
    THEN IF ~BoundMethodTruthy            \* if not mesh.fix_normals
         THEN IF ~BoundMethodTruthy       \* if not mesh.fill_holes
              THEN FALSE
              ELSE TRUE
         ELSE TRUE
    ELSE TRUE

(***************************************************************************)
(* Results of calls.                                                       *)
(***************************************************************************)
NoResult ==
    [op |-> "none", outcome |-> "none", exc |-> "", value |-> FALSE, f |-> EmptyPath,
     dist |-> None, fmt |-> "", z_list |-> <<>>, origin_z |-> None, doc |-> None]
Returned(r) == [r EXCEPT !.outcome = "returned"]
Raised(r, e) == [r EXCEPT !.outcome = "raised", !.exc = e]

(***************************************************************************)
(* load_mesh (src/stlslicer.py:25-50).                                     *)
(***************************************************************************)
LoadMesh(f) ==
    LET call == [NoResult EXCEPT !.op = "load_mesh", !.f = f] IN
    /\ full_filename' = f
    /\ filename' = splitext0(f)
    /\ IF LoadRaises(f)
       THEN /\ result' = Raised(call, "Exception")
            /\ UNCHANGED <<mesh, mesh_watertight>>
       ELSE \E m \in MeshesOf(f) :
            /\ mesh' = Some(m)
            /\ mesh_watertight' = IF repair_mesh_watertight(m) THEN TRUE ELSE mesh_watertight
            /\ result' = Returned(call)
    /\ UNCHANGED <<layers, distance, layers_src>>
    /\ UNCHANGED <<exportVars, encoderVars>>

(***************************************************************************)
(* slice_mesh (src/stlslicer.py:52-108).                                   *)
(***************************************************************************)
\* Python's `a or b` on an optional number: a unless a is None or 0.
PyOr(a, b) == IF a = None \/ a = Some(0) THEN b ELSE a

\* int(a / b): true division, then truncation toward zero.
IntDiv(a, b) ==
    LET q == Abs(a) \div Abs(b) IN IF (a < 0) = (b < 0) THEN q ELSE -q

\* no_of_planes = int((z_max - z_min) / distance)
NoOfPlanesMainPy(m, d) == IntDiv(m.z_max, d)
NoOfPlanes(m, d) == IntDiv(m.z_max - m.z_min, d)

\* z_list = [i * distance for i in range(no_of_planes + 1)]
ZList(m, d) ==
    LET n == NoOfPlanes(m, d) + 1 IN
    IF n <= 0 THEN <<>> ELSE [i \in 1..n |-> (i - 1) * d]

\* dict: the keys, a lookup, and d[k] = v (a new key is appended, an old key keeps its place)
Keys(d) == { d[i][1] : i \in 1..Len(d) }
DictSet(d, k, v) ==
    IF k \in Keys(d)
    THEN [i \in 1..Len(d) |-> IF d[i][1] = k THEN <<k, v>> ELSE d[i]]
    ELSE Append(d, <<k, v>>)

\* for i in range(len(slices_2D)): layers[z_list[i]] = slices_2D[i], from acc
RECURSIVE FillLayers(_, _, _, _)
FillLayers(acc, z_list, slices_2D, i) ==
    IF i > Len(slices_2D) THEN acc
    ELSE FillLayers(DictSet(acc, z_list[i], slices_2D[i]), z_list, slices_2D, i + 1)

\* layers = {} followed by the loop
BuildLayersStale(z_list, slices_2D) == FillLayers(layers, z_list, slices_2D, 1)
BuildLayers(z_list, slices_2D) == FillLayers(<<>>, z_list, slices_2D, 1)

SliceMesh(dist) ==
    LET call == [NoResult EXCEPT !.op = "slice_mesh", !.dist = dist]
        d0 == PyOr(dist, distance)
    IN
    /\ UNCHANGED <<exportVars, encoderVars>>
    /\ IF d0 = None
        THEN \* self.distance was never assigned
             /\ result' = Raised(call, "AttributeError")
             /\ UNCHANGED <<layers, distance, full_filename, filename, mesh,
                            mesh_watertight, layers_src>>
        ELSE IF mesh = None
        THEN \* None has no attribute bounds
             /\ result' = Raised(call, "AttributeError")
             /\ UNCHANGED <<layers, distance, full_filename, filename, mesh,
                            mesh_watertight, layers_src>>
        ELSE LET m == mesh[1]
                 d == d0[1]
                 z_list == ZList(m, d)
             IN  IF z_list = <<>>
                 THEN \* z_list[0] in the log message
                      /\ result' = Raised(call, "IndexError")
                      /\ UNCHANGED <<layers, distance, full_filename, filename, mesh,
                                     mesh_watertight, layers_src>>
                 ELSE \E slices_2D \in [1..Len(z_list) -> SectionKinds] :
                      /\ layers' = BuildLayers(z_list, slices_2D)
                      /\ layers_src' = Some([src |-> m.src, watertight |-> mesh_watertight])
                      /\ result' = Returned([call EXCEPT !.z_list = z_list,
                                                          !.origin_z = Some(m.z_min)])
                      /\ UNCHANGED <<distance, full_filename, filename, mesh,
                                     mesh_watertight>>

(***************************************************************************)
(* export_layers (src/stlslicer.py:110-184), one session on its own.       *)
(***************************************************************************)
\* path2D.export(...) on a cross-section: None has no attribute export, so the
\* call raises AttributeError; a Path2D is written to its file.
ExportRaises(path2D) == path2D = "None"

\* One pass of the loop body of lines 162-170 on the running totals:
\*   files        the keys of json_dict["files"]
\*   vector_files the heights whose vector file is on disk
\*   attempted    the heights whose export was called
\*   aborted      an exception left the loop
LayerStepNoCatch(acc, height, path2D) ==
    IF ExportRaises(path2D)
    THEN [acc EXCEPT !.attempted = @ \cup {height}, !.aborted = TRUE]
    ELSE [acc EXCEPT !.attempted = @ \cup {height},
                     !.vector_files = @ \cup {height},
                     !.files = @ \cup {height}]
LayerStep(acc, height, path2D) ==
    IF ExportRaises(path2D)
    THEN \* except AttributeError: log, go on with the next layer
         [acc EXCEPT !.attempted = @ \cup {height}]
    ELSE [acc EXCEPT !.attempted = @ \cup {height},
                     !.vector_files = @ \cup {height},
                     !.files = @ \cup {height}]

\* for height, path2D in layers.items(): ...
RECURSIVE ExportLoop(_, _, _)
ExportLoop(acc, items, i) ==
    IF i > Len(items) \/ acc.aborted THEN acc
    ELSE ExportLoop(LayerStep(acc, items[i][1], items[i][2]), items, i + 1)

NoFilesYet == [files |-> {}, vector_files |-> {}, attempted |-> {}, aborted |-> FALSE]

\* export_layers(exp_type) with the layers argument left at None, so that
\* `layers or self.layers` is self.layers.  The session is alone here: the
\* directory loop of lines 144-152 creates its directory (Now, Makedirs and Tick
\* below model that loop under concurrent runs), and the document records the
\* stem and the format of the names it writes.
ExportLayers(t) ==
    LET call == [NoResult EXCEPT !.op = "export_layers", !.fmt = t] IN
    /\ IF mesh = None
       THEN \* str(self.mesh.units) while slice_data is built
            result' = Raised(call, "AttributeError")
       ELSE LET slice_data == [source |-> full_filename, units |-> mesh[1].units,
                               watertight |-> mesh_watertight, layers |-> layers]
            IN  CASE t = "json" ->
                       result' = Returned([call EXCEPT
                           !.value = TRUE,
                           !.doc = Some([kind |-> "json",
                                         name |-> <<filename, "json">>,
                                         source |-> slice_data.source,
                                         units |-> slice_data.units,
                                         watertight |-> slice_data.watertight,
                                         heights |-> Keys(slice_data.layers),
                                         vector_files |-> {},
                                         attempted |-> {},
                                         layers_src |-> layers_src])])
                  [] t \in {"dxf", "svg"} ->
                       LET done == ExportLoop(NoFilesYet, slice_data.layers, 1) IN
                       IF done.aborted
                       THEN result' = Raised([call EXCEPT
                           !.doc = Some([kind |-> "partial",
                                         name |-> <<filename, t>>,
                                         source |-> slice_data.source,
                                         units |-> slice_data.units,
                                         watertight |-> slice_data.watertight,
                                         heights |-> {},
                                         vector_files |-> done.vector_files,
                                         attempted |-> done.attempted,
                                         layers_src |-> layers_src])], "AttributeError")
                       ELSE result' = Returned([call EXCEPT
                           !.value = TRUE,
                           !.doc = Some([kind |-> "index",
                                         name |-> <<filename, t>>,
                                         source |-> slice_data.source,
                                         units |-> slice_data.units,
                                         watertight |-> slice_data.watertight,
                                         heights |-> done.files,
                                         vector_files |-> done.vector_files,
                                         attempted |-> done.attempted,
                                         layers_src |-> layers_src])])
                  [] OTHER ->
                       result' = Returned([call EXCEPT !.value = FALSE])
    /\ UNCHANGED <<layers, distance, full_filename, filename, mesh, mesh_watertight,
                   layers_src>>
    /\ UNCHANGED <<exportVars, encoderVars>>

(***************************************************************************)
(* The session.                                                            *)
(***************************************************************************)
SessionInit ==
    /\ layers = <<>>
    /\ distance = None
    /\ full_filename = EmptyPath
    /\ filename = ""
    /\ mesh = None
    /\ mesh_watertight = FALSE
    /\ result = NoResult
    /\ layers_src = None

ExportIdle ==
    /\ pc = <<>>
    /\ exp_type = <<>>
    /\ dir_name = <<>>
    /\ created = <<>>
    /\ fs = {}
    /\ parent_writable = TRUE

EncoderIdle ==
    /\ enc_obj = None
    /\ enc_out = None

Init == SessionInit /\ ExportIdle /\ EncoderIdle

Next ==
    \/ \E f \in Files : LoadMesh(f)
    \/ \E dist \in Distances : SliceMesh(dist)
    \/ \E t \in ExpTypes : ExportLayers(t)

Spec == Init /\ [][Next]_vars

(***************************************************************************)
(* The directory loop of export_layers (src/stlslicer.py:142-176) under    *)
(* concurrent runs.  All runs export the same source stem, so a directory  *)
(* name "_".join([filename, exp_type, date_time_str]) is its exp_type and  *)
(* its timestamp.  The wall clock only moves forward, so a timestamp is    *)
(* kept as its age, now minus timestamp, in seconds: Tick ages every       *)
(* timestamp by one, and two names are equal when their exp_type and their *)
(* age are.  Ages of MaxAge and more are folded into MaxAge; a run is      *)
(* never held between reading the clock and calling makedirs long enough   *)
(* for its own timestamp to be folded.                                     *)
(***************************************************************************)
Runs == 1..NumRuns
VectorTypes == {"dxf", "svg"}

\* date_time_str = datetime.now().strftime(STR_DATETIME_FORMAT);
\* dir_name = "_".join([self.filename, exp_type, date_time_str])
DirNameNow(t) == <<t, 0>>

Older(name) == <<name[1], IF name[2] < MaxAge THEN name[2] + 1 ELSE MaxAge>>

\* os.makedirs(dir_name, exist_ok=False) raises OSError: FileExistsError when
\* dir_name exists, PermissionError when the parent refuses the new entry.
MakedirsRaisesExistOk(name) == ~parent_writable
MakedirsRaises(name) == ~parent_writable \/ name \in fs

\* lines 145-146
Now(r) ==
    /\ pc[r] = "now"
    /\ dir_name' = [dir_name EXCEPT ![r] = Some(DirNameNow(exp_type[r]))]
    /\ pc' = [pc EXCEPT ![r] = "makedirs"]
    /\ UNCHANGED <<exp_type, created, fs, parent_writable>>
    /\ UNCHANGED <<sessionVars, encoderVars>>

\* lines 147-152
Makedirs(r) ==
    /\ pc[r] = "makedirs"
    /\ IF MakedirsRaises(dir_name[r][1])
       THEN \* except OSError: continue
            /\ pc' = [pc EXCEPT ![r] = "now"]
            /\ UNCHANGED <<created, fs>>
       ELSE \* break
            /\ created' = [created EXCEPT ![r] = dir_name[r][1] \notin fs]
            /\ fs' = fs \cup {dir_name[r][1]}
            /\ pc' = [pc EXCEPT ![r] = "write"]
    /\ UNCHANGED <<exp_type, dir_name, parent_writable>>
    /\ UNCHANGED <<sessionVars, encoderVars>>

\* lines 154-176: the layer files and the index go into dir_name
Write(r) ==
    /\ pc[r] = "write"
    /\ pc' = [pc EXCEPT ![r] = "done"]
    /\ UNCHANGED <<exp_type, dir_name, created, fs, parent_writable>>
    /\ UNCHANGED <<sessionVars, encoderVars>>

\* One second passes on the wall clock.
Tick ==
    /\ \A r \in Runs : pc[r] = "makedirs" => dir_name[r][1][2] < MaxAge - 1
    /\ fs' = { Older(name) : name \in fs }
    /\ dir_name' = [r \in Runs |->
                       IF dir_name[r] = None THEN None ELSE Some(Older(dir_name[r][1]))]
    /\ UNCHANGED <<pc, exp_type, created, parent_writable>>
    /\ UNCHANGED <<sessionVars, encoderVars>>

\* Every run has reached line 144; an earlier run may have left a directory
\* stamped with the current second.
ExportInit ==
    /\ pc = [r \in Runs |-> "now"]
    /\ exp_type \in [Runs -> VectorTypes]
    /\ dir_name = [r \in Runs |-> None]
    /\ created = [r \in Runs |-> FALSE]
    /\ fs \in SUBSET { DirNameNow(t) : t \in VectorTypes }
    /\ parent_writable \in BOOLEAN

RunStep(r) == Now(r) \/ Makedirs(r) \/ Write(r)

ExportNext ==
    \/ \E r \in Runs : Now(r)
    \/ \E r \in Runs : Makedirs(r)
    \/ \E r \in Runs : Write(r)
    \/ Tick

(***************************************************************************)
(* NumpyArrayEncoder.default (src/util.py:6-19).                           *)
(***************************************************************************)
\* An object is its class name, as is_instance_named and isinstance see it,
\* and its value: num for a number, truth for a boolean.
Obj(cls, num, truth) == [cls |-> cls, num |-> num, truth |-> truth]
NumpyObjects ==
    { Obj(c, n, FALSE) : c \in {"integer", "floating"}, n \in -MaxNum..MaxNum }
    \cup { Obj("bool_", 0, b) : b \in BOOLEAN }
    \cup { Obj(c, 0, FALSE) : c \in {"ndarray", "Path2D", "object"} }

\* str(obj) of a numpy boolean, and bool(s) of a string
StrOfBool(b) == IF b THEN "True" ELSE "False"
BoolOfStr(s) == s # ""

default(obj) ==
    CASE obj.cls = "integer"  -> Obj("int", obj.num, FALSE)                     \* int(obj)
      [] obj.cls = "floating" -> Obj("float", obj.num, FALSE)                   \* float(obj)
      [] obj.cls = "ndarray"  -> Obj("list", 0, FALSE)                          \* obj.tolist()
      [] obj.cls = "bool_"    -> Obj("bool", 0, BoolOfStr(StrOfBool(obj.truth))) \* bool(str(obj))
      [] obj.cls = "Path2D"   -> Obj("dict", 0, FALSE)                          \* obj.to_dict()
      [] OTHER                -> Obj("TypeError", 0, FALSE)                     \* super().default(obj)

Default ==
    /\ enc_obj # None
    /\ enc_out = None
    /\ enc_out' = Some(default(enc_obj[1]))
    /\ UNCHANGED enc_obj
    /\ UNCHANGED <<sessionVars, exportVars>>

EncoderInit ==
    /\ enc_obj \in { Some(o) : o \in NumpyObjects }
    /\ enc_out = None

EncoderNext == Default

(***************************************************************************)
(* The other two state machines.                                           *)
(***************************************************************************)
ExportStart == SessionInit /\ ExportInit /\ EncoderIdle
ExportSpec == ExportStart /\ [][ExportNext]_vars

\* Every run is scheduled again and again, and the wall clock keeps advancing.
FairExportSpec ==
    /\ ExportSpec
    /\ \A r \in Runs : WF_vars(RunStep(r))
    /\ SF_vars(Tick)

EncoderStart == SessionInit /\ ExportIdle /\ EncoderInit
EncoderSpec == EncoderStart /\ [][EncoderNext]_vars

(***************************************************************************)
(* Claims about one session (checked under Spec).                          *)
(***************************************************************************)
Range(seq) == { seq[i] : i \in 1..Len(seq) }
SliceCalled == result.op = "slice_mesh"
ExportCalled == result.op = "export_layers"

C2_OneEntryPerHeight ==
    (SliceCalled /\ result.outcome = "returned") =>
        /\ Keys(layers) = Range(result.z_list)
        /\ Len(layers) = Len(result.z_list)
        /\ \A i \in 1..Len(layers) : layers[i][1] = result.z_list[i]

\* A returned slice with an empty cross-section among several layers.
C2_Witness ==
    /\ SliceCalled /\ result.outcome = "returned"
    /\ Len(layers) >= 2
    /\ \E i \in 1..Len(layers) : layers[i][2] = "None"
    /\ \E i \in 1..Len(layers) : layers[i][2] = "Path2D"

\* C3: the watertight flag of the session, which repair_mesh_watertight decides
\* and export_layers writes, is true only for a mesh that is watertight.
C3_FlagOnlyIfWatertight ==
    /\ mesh_watertight => (mesh # None /\ mesh[1].is_watertight)
    /\ (ExportCalled /\ result.doc # None /\ result.doc[1].watertight) =>
           (mesh # None /\ mesh[1].is_watertight)

\* C4: slice_mesh on a loaded mesh with a pitch that is zero or negative fails:
\* it returns no layer store and leaves self.layers as it was.
C4_NonPositivePitchFails ==
    [][\A dist \in Distances :
          (mesh # None /\ dist # None /\ dist[1] <= 0 /\ SliceMesh(dist)) =>
              (result'.outcome = "raised" /\ layers' = layers)]_vars

\* C5: in every session state, export_layers with a format other than json, dxf
\* and svg returns False, raises nothing and writes nothing.
C5_UnsupportedFormatReturnsFalse ==
    (ExportCalled /\ result.fmt \notin {"json", "dxf", "svg"}) =>
        /\ result.outcome = "returned"
        /\ result.value = FALSE
        /\ result.doc = None

C8_DocumentCoherent ==
    (ExportCalled /\ result.doc # None /\ result.doc[1].layers_src # None) =>
        LET doc == result.doc[1]
            from == doc.layers_src[1]
        IN  /\ doc.source = from.src
            /\ doc.name[1] = splitext0(from.src)
            /\ doc.watertight = from.watertight

(***************************************************************************)
(* Claims about concurrent exports (ExportSpec, FairExportSpec).           *)
(***************************************************************************)
PastLoop(r) == pc[r] \in {"write", "done"}
InLoop(r) == pc[r] \in {"now", "makedirs"}
SameDirectory(r1, r2) ==
    /\ dir_name[r1] # None
    /\ dir_name[r1] = dir_name[r2]
    /\ dir_name[r1][1][2] < MaxAge

\* C6: however dxf and svg exports of one stem interleave, a run goes on only
\* with a directory its own makedirs call created, so no two runs write into
\* the same directory.
C6_OwnDirectory ==
    /\ \A r \in Runs : PastLoop(r) => (created[r] /\ dir_name[r][1] \in fs)
    /\ \A r1, r2 \in Runs :
          (r1 # r2 /\ PastLoop(r1) /\ PastLoop(r2)) => ~SameDirectory(r1, r2)

\* Two runs of one format in one second: the first created the directory, the
\* second computed the same name, was refused and is back at the top of the loop.
C6_Witness ==
    /\ parent_writable
    /\ \E r1, r2 \in Runs :
          /\ r1 # r2
          /\ pc[r1] = "write"
          /\ pc[r2] = "now"
          /\ SameDirectory(r1, r2)

\* C9: with the wall clock advancing, every run that is in the directory loop
\* leaves it, whatever makes makedirs fail.
C9_LoopEnds ==
    \A r \in Runs : InLoop(r) ~> (PastLoop(r) \/ pc[r] = "failed")

(***************************************************************************)
(* Claim about the encoder (EncoderSpec).                                  *)
(***************************************************************************)
\* C10: default returns, for a numpy boolean, the boolean of the same truth
\* value and, for a numpy integer or float, the plain number of equal value.
C10_ValuePreserved ==
    (enc_out # None) =>
        LET obj == enc_obj[1]
            out == enc_out[1]
        IN  /\ obj.cls = "bool_" => (out.cls = "bool" /\ out.truth = obj.truth)
            /\ obj.cls = "integer" => (out.cls = "int" /\ out.num = obj.num)
            /\ obj.cls = "floating" => (out.cls = "float" /\ out.num = obj.num)

====
